---- MODULE Spec2Model ----
(***************************************************************************)
(* A model of cc-nim's core: the CLI session engine (providers/            *)
(* claude_cli.py: CLISession, CLIParser) and the global rate limiter        *)
(* (messaging/rate_limiter.py: GlobalRateLimiter).                          *)
(*                                                                         *)
(* The specifications share the variables:                                 *)
(*   Spec         the session engine: concurrent start_task turns          *)
(*   SpecExtract  CLISession._extract_session_id as a pure function        *)
(*   SpecLimiter  the rate limiter: submitters, worker thread, event loop  *)
(*   SpecQueue    the session lock with several callers queued            *)
(*   SpecParse    CLIParser.parse_event as a pure function                 *)
(*   SpecThink    the think-delimiter splitter, fed in chunks              *)
(*   SpecTool     the heuristic tool-call extractor, fed in chunks         *)
(*   SpecAdapter  the chat adapter's handling of inbound events            *)
(*   SpecStop     the rate limiter with stop                               *)
(***************************************************************************)
EXTENDS Integers, Sequences, FiniteSets, TLC

VARIABLES
    \* ---- CLISession (Spec)
    pc,                 \* pc[t]: where turn t (one start_task call) stands
    cli_locked,         \* _cli_lock._locked
    cli_waiters,        \* _cli_lock._waiters, in arrival order
    is_busy,            \* _is_busy
    process,            \* self.process: the turn whose child it refers to, 0 for None
    current_session_id, \* self.current_session_id
    session_id_extracted, \* the local flag of each turn, while its generator lives
    pending,            \* the local event a turn yields after its session_info
    proc,               \* proc[t]: the child turn t spawned: "none", "running",
                        \* "exited" (by itself) or "killed" (by stop)
    return_code,        \* return_code[t]: the local of line 239, 0 until it is set
    eof,                \* eof[t]: the last readline of turn t returned b""
    owner,              \* history: the turn that last entered the lock, 0 for none
    out,                \* history: what has been yielded since owner entered
    lines,              \* history: the lines read since owner entered
    \* ---- _extract_session_id (SpecExtract)
    xEvent,             \* the event handed to _extract_session_id
    xDone,              \* whether it has been applied
    xResult,            \* what it returned
    \* ---- ThinkTagParser (SpecThink)
    thText,             \* the whole text that is being fed
    thRest,             \* the part of thText not yet fed
    thMode,             \* the parser's mode: "OUTSIDE" or "INSIDE"
    thHeld,             \* the parser's held-back suffix
    thOut,              \* history: the spans emitted so far, adjacent ones merged
    \* ---- HeuristicToolParser (SpecTool)
    tpCase,             \* the input that is being fed: prose, one call, a tail
    tpRest,             \* the part of the input not yet fed
    tpState,            \* the parser's state: "OUTSIDE" or "IN_CALL"
    tpBuf,              \* the parser's held-back text
    tpName,             \* the tool name of the call in progress
    tpParams,           \* the parameter map of the call in progress
    tpFiltered,         \* history: the filtered texts of the feed calls, joined
    tpCalls,            \* history: the calls the feed calls reported, in order
    tpFlushCalls,       \* history: the calls the flush calls reported, in order
    tpFlushes,          \* history: the number of flush calls
    \* ---- TelegramPlatform (SpecAdapter)
    allowed_user_id,    \* self.allowed_user_id: its characters, <<>> for none
    message_handler,    \* whether self._message_handler is set
    entity_cache,       \* the keys of self._entity_cache
    inbound,            \* history: the events _handle_event was called with
    delivered,          \* history: the events handed to the handler
    sent,               \* history: the messages _handle_event sent
    \* ---- GlobalRateLimiter (SpecLimiter, SpecStop)
    now,                \* the clock, in ticks
    queue,              \* RateLimitQueue: the items put and not yet got
    call_log,           \* RateLimitQueue: the times of the gets
    ready,              \* the event loop's ready queue (call_soon order)
    task,               \* task[i]: where submitted task i stands
    submitted,          \* history: the tasks in the order of their put
    started,            \* history: the tasks in the order their function was invoked
    get_time,           \* history: when the worker got task i
    start_time,         \* history: when task i's function was invoked
    fut,                \* fut[i]: the future of task i's execute call
    worker,             \* the worker thread: "alive" or "dead"
    loop_closed,        \* whether the submitters' event loop has been closed
    cancelled_queued,   \* history: task i's wait was cancelled while it was queued
    stop_event,         \* _stop_event is set
    late                \* history: the tasks submitted after stop returned

sessVars == <<pc, cli_locked, cli_waiters, is_busy, process, current_session_id,
              session_id_extracted, pending, proc, return_code, eof, owner, out, lines>>
thVars == <<thText, thRest, thMode, thHeld, thOut>>
tpVars == <<tpCase, tpRest, tpState, tpBuf, tpName, tpParams, tpFiltered, tpCalls,
            tpFlushCalls, tpFlushes>>
tgVars == <<allowed_user_id, message_handler, entity_cache, inbound, delivered, sent>>
extVars == <<xEvent, xDone, xResult, thVars, tpVars, tgVars>>
limVars == <<now, queue, call_log, ready, task, submitted, started, get_time, start_time,
             fut, worker, loop_closed, cancelled_queued, stop_event, late>>
vars == <<sessVars, extVars, limVars>>

(***************************************************************************)
(* Bounds.                                                                 *)
(***************************************************************************)
NumTurns == 2
MaxLines == 2
MaxFields == 3
NumTasks == 3
MaxTime == 4
NumCallers == 3
MaxItems == 3
MaxSegs == 4
MaxParams == 2
MaxFlushes == 2
MaxEvents == 3

(***************************************************************************)
(* GlobalRateLimiter's defaults (rate_limiter.py line 21): one call per    *)
(* period; the period of 1.0 s is two ticks of the model's clock.          *)
(***************************************************************************)
Calls == 1
Period == 2

Turns == 1..NumTurns
\* the concurrent callers of SpecQueue
Callers == 1..NumCallers

(***************************************************************************)
(* JSON values.  A dict is JDict(r), r a record whose DOMAIN is the dict's *)
(* keys; a list is JList(s); any other decoded value is JOther (truthy) or *)
(* JFalsy (None, 0, the empty string).  A                                  *)
(* scalar field is a string: a token, the empty string, or JNull for null. *)
(* None, as a function's result, is JNull too.                             *)
(***************************************************************************)
JNull == "<None>"
JOther == [kind |-> "other", truthy |-> TRUE]
JFalsy == [kind |-> "other", truthy |-> FALSE]
JDict(r) == [kind |-> "dict", d |-> r]
JList(s) == [kind |-> "list", items |-> s]
EmptyDict == JDict([k \in {} |-> ""])
IsDict(v) == v.kind = "dict"
IsList(v) == v.kind = "list"
Truth(v) ==
    IF IsDict(v) THEN DOMAIN v.d # {}
    ELSE IF IsList(v) THEN v.items # <<>>
    ELSE v.truthy
Has(v, k) == k \in DOMAIN v.d
Get(v, k, default) == IF Has(v, k) THEN v.d[k] ELSE default
Truthy(s) == s # JNull /\ s # ""

NestedKeys == <<"init", "system", "result", "metadata">>

\* lines 263-269: the containers from the i-th on, in order
RECURSIVE ExtractNested(_, _)
ExtractNested(event, i) ==
    IF i > Len(NestedKeys) THEN
        \* lines 271-277
        IF Has(event, "conversation") /\ IsDict(event.d.conversation)
           /\ Has(event.d.conversation, "id")
        THEN event.d.conversation.d.id
        ELSE JNull
    ELSE LET key == NestedKeys[i] IN
        IF Has(event, key) /\ IsDict(event.d[key]) THEN
            LET nested == event.d[key] IN
            IF Has(nested, "session_id") THEN nested.d.session_id
            ELSE IF Has(nested, "sessionId") THEN nested.d.sessionId
            ELSE ExtractNested(event, i + 1)
        ELSE ExtractNested(event, i + 1)

ExtractSessionId(event) ==
    IF ~IsDict(event) THEN JNull
    ELSE IF Has(event, "session_id") THEN event.d.session_id
    ELSE IF Has(event, "sessionId") THEN event.d.sessionId
    ELSE ExtractNested(event, 1)

(***************************************************************************)
(* CLIParser.parse_event.  Drop is the None it returns; Raised is an       *)
(* AttributeError escaping it (input that is not a dict).                  *)
(***************************************************************************)
Drop == [type |-> JNull]
Raised == [type |-> "<raise>"]

\* lines 40-49: the items of one type, in list order
RECURSIVE ItemsOfType(_, _)
ItemsOfType(items, ctype) ==
    IF items = <<>> THEN <<>>
    ELSE LET c == Head(items) IN
         IF IsDict(c) /\ Get(c, "type", JNull) = ctype
         THEN <<c>> \o ItemsOfType(Tail(items), ctype)
         ELSE ItemsOfType(Tail(items), ctype)

\* "".join / "\n".join over one field of the items
RECURSIVE JoinField(_, _, _)
JoinField(items, field, sep) ==
    IF items = <<>> THEN ""
    ELSE IF Len(items) = 1 THEN Get(items[1], field, "")
    ELSE Get(items[1], field, "") \o sep \o JoinField(Tail(items), field, sep)

\* lines 53-57 and 87: t.get("input", {}).get("description", "Subagent")
Description(t) ==
    LET input == Get(t, "input", EmptyDict) IN
    IF IsDict(input) THEN Get(input, "description", "Subagent") ELSE "<raise>"

\* Mutant of Subagents: the name of the tool is not looked at.
RECURSIVE Subagents_AnyTool(_)
Subagents_AnyTool(tool_calls) ==
    IF tool_calls = <<>> THEN <<>>
    ELSE <<Description(Head(tool_calls))>> \o Subagents_AnyTool(Tail(tool_calls))

RECURSIVE Subagents(_)
Subagents(tool_calls) ==
    IF tool_calls = <<>> THEN <<>>
    ELSE IF Get(Head(tool_calls), "name", JNull) = "Task"
         THEN <<Description(Head(tool_calls))>> \o Subagents(Tail(tool_calls))
         ELSE Subagents(Tail(tool_calls))

\* lines 21-32
MsgObj(event) ==
    LET etype == Get(event, "type", JNull)
        top == Get(event, "message", JFalsy)
    IN  IF etype = "assistant" THEN top
        ELSE IF etype = "result" THEN
            LET res == Get(event, "result", JFalsy)
                inner == IF IsDict(res) THEN Get(res, "message", JFalsy) ELSE JFalsy
            IN  IF Truth(inner) THEN inner ELSE top
        ELSE JFalsy

\* lines 72-101
ParseRest(event) ==
    LET etype == Get(event, "type", JNull) IN
    IF etype = "content_block_delta" /\ ~IsDict(Get(event, "delta", EmptyDict)) THEN Drop
    ELSE IF etype = "content_block_delta"
            /\ Get(Get(event, "delta", EmptyDict), "type", JNull) = "text_delta"
    THEN [type |-> "content", text |-> Get(event.d.delta, "text", "")]
    ELSE IF etype = "content_block_delta"
            /\ Get(Get(event, "delta", EmptyDict), "type", JNull) = "thinking_delta"
    THEN [type |-> "thinking", text |-> Get(event.d.delta, "thinking", "")]
    ELSE IF etype = "content_block_start"
            /\ IsDict(Get(event, "content_block", EmptyDict))
            /\ Get(Get(event, "content_block", EmptyDict), "type", JNull) = "tool_use"
    THEN LET block == event.d.content_block IN
         IF Get(block, "name", JNull) = "Task"
         THEN IF Description(block) = "<raise>" THEN Raised
              ELSE [type |-> "subagent_start", tasks |-> <<Description(block)>>]
         ELSE [type |-> "tool_start", tools |-> <<block>>]
    ELSE IF etype = "error"
    THEN LET err == Get(event, "error", JOther) IN
         [type |-> "error",
          message |-> IF IsDict(err) THEN Get(err, "message", JNull) ELSE "<str>"]
    ELSE IF etype = "exit"
    THEN [type |-> "complete",
          status |-> IF Has(event, "code") /\ event.d.code = 0
                     THEN "success" ELSE "failed"]
    ELSE Drop

ParseEvent(event) ==
    IF ~IsDict(event) THEN Drop
    ELSE LET msg_obj == MsgObj(event)
             content == IF Truth(msg_obj) /\ IsDict(msg_obj)
                        THEN Get(msg_obj, "content", JList(<<>>)) ELSE JOther
         IN  IF IsList(content) THEN
                 LET parts == ItemsOfType(content.items, "text")
                     thinking_parts == ItemsOfType(content.items, "thinking")
                     tool_calls == ItemsOfType(content.items, "tool_use")
                 IN  IF tool_calls # <<>> THEN
                         IF \E i \in 1..Len(tool_calls) :
                                /\ Get(tool_calls[i], "name", JNull) = "Task"
                                /\ Description(tool_calls[i]) = "<raise>"
                         THEN Raised
                         ELSE IF Subagents(tool_calls) # <<>>
                         THEN [type |-> "subagent_start", tasks |-> Subagents(tool_calls)]
                         ELSE [type |-> "tool_start", tools |-> tool_calls]
                     ELSE IF thinking_parts # <<>> /\ parts # <<>>
                     THEN [type |-> "content",
                           thinking |-> JoinField(thinking_parts, "thinking", "\n"),
                           text |-> JoinField(parts, "text", "")]
                     ELSE IF thinking_parts # <<>>
                     THEN [type |-> "content",
                           thinking |-> JoinField(thinking_parts, "thinking", "\n")]
                     ELSE IF parts # <<>>
                     THEN [type |-> "content", text |-> JoinField(parts, "text", "")]
                     ELSE ParseRest(event)
             ELSE ParseRest(event)

(***************************************************************************)
(* The child's output.  A line is what readline returned, decoded and      *)
(* stripped (line 210): str is the stripped text, and val the value        *)
(* json.loads gives for it; a line json.loads rejects has no val.          *)
(***************************************************************************)
LineSet ==
    { [str |-> ""],
      [str |-> "not json"],
      [str |-> "42", val |-> JOther],
      [str |-> "{assistant}", val |-> JDict([type |-> "assistant"])],
      [str |-> "{system sA}", val |-> JDict([type |-> "system", session_id |-> "sA"])],
      [str |-> "{system empty sB}",
       val |-> JDict([type |-> "system", session_id |-> "", sessionId |-> "sB"])],
      [str |-> "{result sB}",
       val |-> JDict([type |-> "result", result |-> JDict([sessionId |-> "sB"])])] }

Decodes(line) == "val" \in DOMAIN line
ExitCodes == {0, 1}

\* Mutant of ExitEvent: the exit event does not carry the code it is given.
ExitEvent_Zero(code) == JDict([type |-> "exit", code |-> 0])
ExitEvent(code) == JDict([type |-> "exit", code |-> code])
SessionInfo(id) == JDict([type |-> "session_info", session_id |-> id])
\* Mutant of RawEvent: the raw event loses the line.
RawEvent_Empty(line_str) == JDict([type |-> "raw", content |-> ""])
RawEvent(line_str) == JDict([type |-> "raw", content |-> line_str])

\* Where a turn's generator can stand.
Queued == {"waiting", "woken", "wcancel", "rcancel"}
AtYield == {"at_fail_exit", "at_info", "at_event", "at_exit"}
AtAwait == {"spawning", "reading", "draining"}
InBody == AtYield \cup AtAwait
Ended == {"done", "raised", "cancelled", "closed"}

Remove(seq, t) == SelectSeq(seq, LAMBDA x : x # t)

(***************************************************************************)
(* asyncio.Lock, as _cli_lock uses it (lines 120, 142).  A waiter is       *)
(* "waiting" (its future pending), "woken" (release set its result),       *)
(* "wcancel" (its future cancelled) or "rcancel" (woken, then cancelled);  *)
(* it stays in _waiters until its task runs again.                         *)
(***************************************************************************)
\* Mutant of LockFree: acquire takes the lock without looking at it.
LockFree_Always == TRUE

LockFree ==
    /\ ~cli_locked
    /\ \A i \in 1..Len(cli_waiters) : pc[cli_waiters[i]] = "wcancel"

\* Mutant of WakeUpFirst: release wakes the waiter that arrived last.
WakeUpFirst_Last(p, ws) ==
    IF ws # <<>> /\ p[ws[Len(ws)]] = "waiting"
    THEN [p EXCEPT ![ws[Len(ws)]] = "woken"]
    ELSE p

\* Lock._wake_up_first
WakeUpFirst(p, ws) ==
    IF ws # <<>> /\ p[Head(ws)] = "waiting"
    THEN [p EXCEPT ![Head(ws)] = "woken"]
    ELSE p

\* lines 142-143, and the await of line 190
Enter(t, p) ==
    /\ cli_locked' = TRUE
    /\ is_busy' = TRUE
    /\ pc' = [p EXCEPT ![t] = "spawning"]
    /\ owner' = t
    /\ out' = <<>>
    /\ lines' = <<>>

\* Mutant of Exit: the body is left with the lock still held.
Exit_KeepsLock(t, how) ==
    /\ is_busy' = FALSE
    /\ cli_locked' = cli_locked
    /\ pc' = [pc EXCEPT ![t] = how]
    /\ session_id_extracted' = [session_id_extracted EXCEPT ![t] = FALSE]
    /\ pending' = [pending EXCEPT ![t] = JOther]
    /\ eof' = [eof EXCEPT ![t] = FALSE]
    /\ return_code' = [return_code EXCEPT ![t] = 0]

\* lines 241-242 and the end of the async with: how the body is left; the
\* generator's locals go with its frame
Exit(t, how) ==
    /\ is_busy' = FALSE
    /\ cli_locked' = FALSE
    /\ pc' = WakeUpFirst([pc EXCEPT ![t] = how], cli_waiters)
    /\ session_id_extracted' = [session_id_extracted EXCEPT ![t] = FALSE]
    /\ pending' = [pending EXCEPT ![t] = JOther]
    /\ eof' = [eof EXCEPT ![t] = FALSE]
    /\ return_code' = [return_code EXCEPT ![t] = 0]

Yield(t, src, ev) == out' = Append(out, [turn |-> t, src |-> src, ev |-> ev])

\* The first __anext__ of start_task: Lock.acquire.  Turns are numbered in
\* the order of these calls.
StartTask(t) ==
    /\ pc[t] = "idle"
    /\ \A u \in DOMAIN pc : u < t => pc[u] # "idle"
    /\ IF LockFree
       THEN Enter(t, pc) /\ UNCHANGED cli_waiters
       ELSE /\ pc' = [pc EXCEPT ![t] = "waiting"]
            /\ cli_waiters' = Append(cli_waiters, t)
            /\ UNCHANGED <<cli_locked, is_busy, owner, out, lines>>
    /\ UNCHANGED <<process, current_session_id, session_id_extracted, pending, proc,
                   return_code, eof>>

\* A woken waiter runs again: the end of Lock.acquire
LockResume(t) ==
    /\ pc[t] = "woken"
    /\ cli_waiters' = Remove(cli_waiters, t)
    /\ Enter(t, pc)
    /\ UNCHANGED <<process, current_session_id, session_id_extracted, pending, proc,
                   return_code, eof>>

\* The consumer's task is cancelled while its turn waits for the lock
CancelRequest(t) ==
    /\ pc[t] \in {"waiting", "woken"}
    /\ pc' = [pc EXCEPT ![t] = IF pc[t] = "waiting" THEN "wcancel" ELSE "rcancel"]
    /\ UNCHANGED <<cli_locked, cli_waiters, is_busy, process, current_session_id,
                   session_id_extracted, pending, proc, return_code, eof, owner, out, lines>>

\* CancelledError reaches Lock.acquire
CancelDeliver(t) ==
    /\ pc[t] \in {"wcancel", "rcancel"}
    /\ cli_waiters' = Remove(cli_waiters, t)
    /\ pc' = IF cli_locked THEN [pc EXCEPT ![t] = "cancelled"]
             ELSE WakeUpFirst([pc EXCEPT ![t] = "cancelled"], Remove(cli_waiters, t))
    /\ UNCHANGED <<cli_locked, is_busy, process, current_session_id,
                   session_id_extracted, pending, proc, return_code, eof, owner, out, lines>>

\* lines 189-203: create_subprocess_exec returns a process, returns none, or raises
Spawn(t) ==
    /\ pc[t] = "spawning"
    /\ \/ /\ process' = t
          /\ proc' = [proc EXCEPT ![t] = "running"]
          /\ session_id_extracted' = [session_id_extracted EXCEPT ![t] = FALSE]
          /\ pc' = [pc EXCEPT ![t] = "reading"]
          /\ UNCHANGED <<cli_locked, is_busy, out, pending, eof, return_code>>
       \/ /\ process' = 0
          /\ Yield(t, "exit", ExitEvent(1))
          /\ pc' = [pc EXCEPT ![t] = "at_fail_exit"]
          /\ UNCHANGED <<cli_locked, is_busy, proc, session_id_extracted, pending, eof,
                         return_code>>
       \/ /\ Exit(t, "raised")
          /\ UNCHANGED <<process, proc, out>>
    /\ UNCHANGED <<cli_waiters, current_session_id, owner, lines>>

\* Mutant of NeedsInfo: the session_id_extracted flag is not consulted.
NeedsInfo_EveryToken(t, event) == Truthy(ExtractSessionId(event))

\* lines 218-220: whether this decoded event makes the turn yield session_info
NeedsInfo(t, event) ==
    ~session_id_extracted[t] /\ Truthy(ExtractSessionId(event))

\* lines 205-230: one readline and what the loop does with it, the child
\* printing lines of LS
ReadLineFrom(t, LS) ==
    /\ pc[t] = "reading"
    /\ \/ \* line 207: end of stream
          /\ eof' = [eof EXCEPT ![t] = TRUE]
          /\ pc' = [pc EXCEPT ![t] = "draining"]
          /\ UNCHANGED <<cli_locked, is_busy, current_session_id, session_id_extracted,
                         pending, out, lines, return_code>>
       \/ \* readline raises
          /\ Exit(t, "raised")
          /\ UNCHANGED <<current_session_id, out, lines>>
       \/ \E line \in LS :
          /\ Len(lines) < MaxLines
          /\ lines' = Append(lines, line)
          /\ UNCHANGED <<cli_locked, is_busy, eof, return_code>>
          /\ IF line.str = "" THEN
                 UNCHANGED <<pc, current_session_id, session_id_extracted, pending, out>>
             ELSE IF ~Decodes(line) THEN
                 /\ Yield(t, "raw", RawEvent(line.str))
                 /\ pc' = [pc EXCEPT ![t] = "at_event"]
                 /\ UNCHANGED <<current_session_id, session_id_extracted, pending>>
             ELSE IF NeedsInfo(t, line.val) THEN
                 /\ current_session_id' = ExtractSessionId(line.val)
                 /\ session_id_extracted' = [session_id_extracted EXCEPT ![t] = TRUE]
                 /\ Yield(t, "info", SessionInfo(ExtractSessionId(line.val)))
                 /\ pending' = [pending EXCEPT ![t] = line.val]
                 /\ pc' = [pc EXCEPT ![t] = "at_info"]
             ELSE
                 /\ Yield(t, "decoded", line.val)
                 /\ pc' = [pc EXCEPT ![t] = "at_event"]
                 /\ UNCHANGED <<current_session_id, session_id_extracted, pending>>
    /\ UNCHANGED <<cli_waiters, process, proc, owner>>

ReadLine(t) == ReadLineFrom(t, LineSet)

\* lines 232-240: stderr is read, the process awaited, its code yielded
Wait(t) ==
    /\ pc[t] = "draining"
    /\ \E code \in ExitCodes :
          LET rc == IF proc[t] = "killed" THEN -15 ELSE code IN
          /\ proc' = [proc EXCEPT ![t] = IF proc[t] = "killed" THEN "killed" ELSE "exited"]
          /\ return_code' = [return_code EXCEPT ![t] = rc]
          /\ Yield(t, "exit", ExitEvent(rc))
    /\ pc' = [pc EXCEPT ![t] = "at_exit"]
    /\ UNCHANGED <<cli_locked, cli_waiters, is_busy, process, current_session_id,
                   session_id_extracted, pending, eof, owner, lines>>

\* The consumer asks for the next event: the generator runs on from its yield
Resume(t) ==
    /\ pc[t] \in AtYield
    /\ IF pc[t] = "at_info" THEN
           /\ Yield(t, "decoded", pending[t])
           /\ pc' = [pc EXCEPT ![t] = "at_event"]
           /\ pending' = [pending EXCEPT ![t] = JOther]
           /\ UNCHANGED <<cli_locked, is_busy, session_id_extracted, eof, return_code>>
       ELSE IF pc[t] = "at_event" THEN
           /\ pc' = [pc EXCEPT ![t] = "reading"]
           /\ UNCHANGED <<cli_locked, is_busy, out, session_id_extracted, pending, eof,
                          return_code>>
       ELSE
           /\ Exit(t, "done")
           /\ UNCHANGED out
    /\ UNCHANGED <<cli_waiters, process, current_session_id, proc, owner, lines>>

\* The consumer stops early: GeneratorExit is thrown at the yield (aclose)
Close(t) ==
    /\ pc[t] \in AtYield
    /\ Exit(t, "closed")
    /\ UNCHANGED <<cli_waiters, process, current_session_id, proc, owner, out, lines>>

\* The consumer's task is cancelled: CancelledError is thrown at the await
Cancel(t) ==
    /\ pc[t] \in AtAwait
    /\ Exit(t, "cancelled")
    /\ UNCHANGED <<cli_waiters, process, current_session_id, proc, owner, out, lines>>

\* CLISession.stop, lines 279-287
Stop ==
    /\ process # 0
    /\ proc[process] = "running"
    /\ proc' = [proc EXCEPT ![process] = "killed"]
    /\ UNCHANGED <<pc, cli_locked, cli_waiters, is_busy, process, current_session_id,
                   session_id_extracted, pending, return_code, eof, owner, out, lines>>

(***************************************************************************)
(* The specification of the session engine.                                *)
(***************************************************************************)
SessInitOver(T) ==
    /\ pc = [t \in T |-> "idle"]
    /\ cli_locked = FALSE
    /\ cli_waiters = <<>>
    /\ is_busy = FALSE
    /\ process = 0
    /\ current_session_id = JNull
    /\ session_id_extracted = [t \in T |-> FALSE]
    /\ pending = [t \in T |-> JOther]
    /\ proc = [t \in T |-> "none"]
    /\ return_code = [t \in T |-> 0]
    /\ eof = [t \in T |-> FALSE]
    /\ owner = 0
    /\ out = <<>>
    /\ lines = <<>>

SessInit == SessInitOver(Turns)

ThIdle ==
    /\ thText = <<>>
    /\ thRest = <<>>
    /\ thMode = "OUTSIDE"
    /\ thHeld = <<>>
    /\ thOut = <<>>

NoCase == [pre |-> <<>>, name |-> <<>>, params |-> <<>>, tail |-> "none"]

TpIdle ==
    /\ tpCase = NoCase
    /\ tpRest = <<>>
    /\ tpState = "OUTSIDE"
    /\ tpBuf = <<>>
    /\ tpName = <<>>
    /\ tpParams = <<>>
    /\ tpFiltered = <<>>
    /\ tpCalls = <<>>
    /\ tpFlushCalls = <<>>
    /\ tpFlushes = 0

TgIdle ==
    /\ allowed_user_id = <<>>
    /\ message_handler = FALSE
    /\ entity_cache = {}
    /\ inbound = <<>>
    /\ delivered = <<>>
    /\ sent = <<>>

ExtIdle ==
    /\ xEvent = JOther
    /\ xDone = FALSE
    /\ xResult = JNull
    /\ ThIdle
    /\ TpIdle
    /\ TgIdle

LimIdle ==
    /\ now = 0
    /\ queue = <<>>
    /\ call_log = <<>>
    /\ ready = <<>>
    /\ task = <<>>
    /\ submitted = <<>>
    /\ started = <<>>
    /\ get_time = <<>>
    /\ start_time = <<>>
    /\ fut = <<>>
    /\ worker = "alive"
    /\ loop_closed = FALSE
    /\ cancelled_queued = <<>>
    /\ stop_event = FALSE
    /\ late = {}

Init == SessInit /\ ExtIdle /\ LimIdle

Next ==
    \/ \E t \in DOMAIN pc : StartTask(t) /\ UNCHANGED <<extVars, limVars>>
    \/ \E t \in DOMAIN pc : LockResume(t) /\ UNCHANGED <<extVars, limVars>>
    \/ \E t \in DOMAIN pc : CancelRequest(t) /\ UNCHANGED <<extVars, limVars>>
    \/ \E t \in DOMAIN pc : CancelDeliver(t) /\ UNCHANGED <<extVars, limVars>>
    \/ \E t \in DOMAIN pc : Spawn(t) /\ UNCHANGED <<extVars, limVars>>
    \/ \E t \in DOMAIN pc : ReadLine(t) /\ UNCHANGED <<extVars, limVars>>
    \/ \E t \in DOMAIN pc : Wait(t) /\ UNCHANGED <<extVars, limVars>>
    \/ \E t \in DOMAIN pc : Resume(t) /\ UNCHANGED <<extVars, limVars>>
    \/ \E t \in DOMAIN pc : Close(t) /\ UNCHANGED <<extVars, limVars>>
    \/ \E t \in DOMAIN pc : Cancel(t) /\ UNCHANGED <<extVars, limVars>>
    \/ Stop /\ UNCHANGED <<extVars, limVars>>

Spec == Init /\ [][Next]_vars

(***************************************************************************)
(* SpecQueue: NumCallers concurrent callers of one session, whose children *)
(* print nothing before they close their output.                           *)
(***************************************************************************)
InitQueue == SessInitOver(Callers) /\ ExtIdle /\ LimIdle

NextQueue ==
    \/ \E t \in DOMAIN pc : StartTask(t) /\ UNCHANGED <<extVars, limVars>>
    \/ \E t \in DOMAIN pc : LockResume(t) /\ UNCHANGED <<extVars, limVars>>
    \/ \E t \in DOMAIN pc : CancelRequest(t) /\ UNCHANGED <<extVars, limVars>>
    \/ \E t \in DOMAIN pc : CancelDeliver(t) /\ UNCHANGED <<extVars, limVars>>
    \/ \E t \in DOMAIN pc : Spawn(t) /\ UNCHANGED <<extVars, limVars>>
    \/ \E t \in DOMAIN pc : ReadLineFrom(t, {}) /\ UNCHANGED <<extVars, limVars>>
    \/ \E t \in DOMAIN pc : Wait(t) /\ UNCHANGED <<extVars, limVars>>
    \/ \E t \in DOMAIN pc : Resume(t) /\ UNCHANGED <<extVars, limVars>>
    \/ \E t \in DOMAIN pc : Close(t) /\ UNCHANGED <<extVars, limVars>>
    \/ \E t \in DOMAIN pc : Cancel(t) /\ UNCHANGED <<extVars, limVars>>
    \/ Stop /\ UNCHANGED <<extVars, limVars>>

SpecQueue == InitQueue /\ [][NextQueue]_vars

(***************************************************************************)
(* Claims about the session engine (checked under Spec).                   *)
(***************************************************************************)
Last(seq) == seq[Len(seq)]
NonBlank == SelectSeq(lines, LAMBDA l : l.str # "")
\* the event a non-blank line stands for: its decoded value, or the raw fallback
Expected(l) ==
    IF Decodes(l) THEN [src |-> "decoded", ev |-> l.val]
    ELSE [src |-> "raw", ev |-> JDict([type |-> "raw", content |-> l.str])]
Untagged(e) == [src |-> e.src, ev |-> e.ev]
LineEvents == SelectSeq(out, LAMBDA e : e.src \in {"decoded", "raw"})
InfoIdx == {i \in 1..Len(out) : out[i].src = "info"}
ExitIdx == {i \in 1..Len(out) : out[i].src = "exit"}

\* C1: at most one turn is between its spawn and its end at any time, the
\* turn in the body is the one that last took the lock, and everything
\* yielded since it took the lock is its own: a turn spawns only once every
\* earlier turn has ended, so events of two turns never interleave.
C1_TurnsNeverInterleave ==
    /\ Cardinality({t \in Turns : pc[t] \in InBody}) <= 1
    /\ \A t \in Turns : pc[t] \in InBody => owner = t
    /\ \A t \in Turns : (proc[t] # "none" /\ t # owner) => pc[t] \in Ended
    /\ \A i \in 1..Len(out) : out[i].turn = owner

\* C1 witness: one turn is yielding events while a concurrent call waits.
C1_Witness ==
    /\ pc[1] = "at_event"
    /\ pc[2] = "waiting"
    /\ Len(out) = 2

\* C2: whenever a turn leaves its body (end of stream, the failed-to-start
\* return, an exception, cancellation, the consumer closing it early), the
\* lock is free and the busy flag false right after, and the first queued
\* turn, if any, has been woken or is about to pass the wake-up on; the lock
\* and the flag are held exactly while a turn is in its body.
C2_LockReleasedOnEveryExit ==
    /\ [](cli_locked <=> \E t \in Turns : pc[t] \in InBody)
    /\ [](is_busy <=> \E t \in Turns : pc[t] \in InBody)
    /\ [][\A t \in Turns :
            (pc[t] \in InBody /\ pc'[t] \in Ended) =>
                /\ ~cli_locked'
                /\ ~is_busy'
                /\ cli_waiters' # <<>> => pc'[Head(cli_waiters')] # "waiting"]_vars

\* C2 witness: a turn was closed early by its consumer and the turn that was
\* queued behind it has entered the lock and spawned.
C2_Witness ==
    /\ pc[1] = "closed"
    /\ pc[2] = "reading"
    /\ owner = 2

\* C3: a turn that ended early (closed by the consumer, cancelled, or ended
\* by an error) has no child process still running.
C3_EarlyEndTerminatesChild ==
    \A t \in Turns : pc[t] \in {"closed", "cancelled", "raised"} => proc[t] # "running"

\* C4: within a turn at most one session_info is yielded; none is yielded
\* when no decoded event gives a token; otherwise it carries the token of the
\* first such event and stands immediately before that event; and when it is
\* yielded the session's cached token is the one it carries.
C4_SessionInfoBeforeFirstToken ==
    LET nb == NonBlank
        info == InfoIdx
        toks == {j \in 1..Len(nb) :
                   Decodes(nb[j]) /\ Truthy(ExtractSessionId(nb[j].val))}
    IN  /\ Cardinality(info) <= 1
        /\ toks = {} => info = {}
        /\ toks # {} =>
             LET first == CHOOSE j \in toks : \A k \in toks : j <= k IN
             /\ info = {first}
             /\ out[first].ev =
                    JDict([type |-> "session_info",
                           session_id |-> ExtractSessionId(nb[first].val)])
             /\ first < Len(out) => Untagged(out[first + 1]) = Expected(nb[first])
             /\ first = Len(out) => pc[owner] \in {"at_info", "closed"}
             /\ \A t \in Turns : pc[t] = "at_info" => pending[t] = nb[first].val
        /\ \A t \in Turns : pc[t] = "at_info" =>
             /\ toks # {}
             /\ Last(out).src = "info"
             /\ Last(out).ev.d.session_id = current_session_id

\* C4 witness: a turn yielded an event without a token, then session_info,
\* then the event the token came from.
C4_Witness ==
    /\ Len(out) = 3
    /\ out[1].src = "decoded"
    /\ out[2].src = "info"
    /\ out[3].src = "decoded"
    /\ pc[owner] = "at_event"

\* C6: a turn consumed to its end has yielded exactly one exit event, as its
\* last event, which parse_event maps to complete; the exit event of a
\* spawned process is yielded only after end of stream and the process's
\* termination, carries its exit code (-15 when stop killed it), and is
\* mapped to status success iff that code is 0.
C6_OneExitEventLast ==
    \A t \in Turns :
        /\ (pc[t] = "done" /\ owner = t) =>
              /\ Cardinality(ExitIdx) = 1
              /\ Last(out).src = "exit"
              /\ ParseEvent(Last(out).ev).type = "complete"
        /\ pc[t] = "at_exit" =>
              /\ eof[t]
              /\ proc[t] \in {"exited", "killed"}
              /\ proc[t] = "killed" => return_code[t] = -15
              /\ Last(out).ev = JDict([type |-> "exit", code |-> return_code[t]])
              /\ ParseEvent(Last(out).ev).status = "success" <=> return_code[t] = 0

\* C6 witness: a turn ran to its end; its process exited with code 0, and
\* the exit event came after one other event.
C6_Witness ==
    /\ pc[1] = "done"
    /\ owner = 1
    /\ proc[1] = "exited"
    /\ Last(out).ev.d.code = 0
    /\ Len(out) = 2

\* C7: a turn whose spawn failed does not raise to the consumer, and a turn
\* whose process closed its output without a line ends with an event that
\* parse_event maps to complete with status failed.
C7_SpawnFailureYieldsFailure ==
    \A t \in Turns :
        /\ ~(pc[t] = "raised" /\ proc[t] = "none")
        /\ (pc[t] = "at_exit" /\ owner = t /\ lines = <<>>) =>
              ParseEvent(Last(out).ev) = [type |-> "complete", status |-> "failed"]

\* C8: the events a turn has yielded for its lines are, in order, those of
\* the non-blank lines read (the decoded value, or the raw event with the
\* line), at most the last one still to come; a turn that ran to its end
\* has yielded all of them, whichever lines failed to decode, and then its
\* exit event.
C8_EveryLineYieldsItsEvent ==
    LET nb == NonBlank
        le == LineEvents
        exp == [j \in 1..Len(nb) |-> Expected(nb[j])]
        got == [j \in 1..Len(le) |-> Untagged(le[j])]
    IN  /\ Len(got) <= Len(exp)
        /\ Len(got) >= Len(exp) - 1
        /\ got = SubSeq(exp, 1, Len(got))
        /\ (owner # 0 /\ pc[owner] \in {"at_event", "reading", "draining", "at_exit", "done"})
              => got = exp
        /\ (owner # 0 /\ pc[owner] = "done" /\ proc[owner] # "none")
              => Last(out).src = "exit" /\ Len(out) = Len(exp) + Cardinality(InfoIdx) + 1

\* C8 witness: a turn ran to its end having yielded a raw event for a line
\* that failed to decode, then a decoded event, then its exit event.
C8_Witness ==
    /\ owner # 0
    /\ pc[owner] = "done"
    /\ Len(out) = 3
    /\ out[1].src = "raw"
    /\ out[2].src = "decoded"
    /\ out[3].src = "exit"


\* C20: once the session's continuity token is set, no step changes it:
\* a later turn whose output carries another token leaves it as it was.
C20_TokenSetOnce ==
    [][current_session_id # JNull => current_session_id' = current_session_id]_vars

(***************************************************************************)
(* Claims about the callers queued on a session (checked under SpecQueue). *)
(***************************************************************************)
\* C18: callers waiting for the session are admitted in the order of their
\* requests: the lock's queue holds them in arrival order, only a waiter
\* with no waiter still waiting before it is handed the lock, and when a
\* caller has been admitted (it is in the body or has spawned its process)
\* no caller that requested earlier is still waiting.
C18_WaitersAdmittedInArrivalOrder ==
    /\ \A i, j \in 1..Len(cli_waiters) : i < j => cli_waiters[i] < cli_waiters[j]
    /\ \A i, j \in 1..Len(cli_waiters) :
          (i < j /\ pc[cli_waiters[j]] = "woken") => pc[cli_waiters[i]] # "waiting"
    /\ \A u, t \in DOMAIN pc :
          (u < t /\ (pc[t] \in InBody \/ proc[t] # "none")) =>
              pc[u] \notin {"waiting", "woken"}

\* C18 witness: the first caller's turn has ended while two callers were
\* queued; the one that arrived first has been handed the lock and the other
\* still waits behind it.
C18_Witness ==
    /\ pc[1] \in Ended
    /\ proc[1] # "none"
    /\ cli_waiters = <<2, 3>>
    /\ pc[2] = "woken"
    /\ pc[3] = "waiting"

(***************************************************************************)
(* _extract_session_id as a pure function: SpecExtract hands it every      *)
(* event with at most MaxFields of the eleven token locations filled, and  *)
(* possibly one more container that is empty or not a dict.                *)
(***************************************************************************)
Containers == {"init", "system", "result", "metadata", "conversation"}
IdKeys(c) == IF c = "conversation" THEN {"id"} ELSE {"session_id", "sessionId"}
Slots == {<<"top", k>> : k \in {"session_id", "sessionId"}}
         \cup UNION {{<<c, k>> : k \in IdKeys(c)} : c \in Containers}
Vals == {JNull, "", "sA", "sB"}
Filled(S) == {c \in Containers : \E k \in IdKeys(c) : <<c, k>> \in S}
Extras(S) == {<<"none", "none">>} \cup ((Containers \ Filled(S)) \X {"other", "empty"})

MkEvent(S, v, x) ==
    LET keys == {"type"} \cup {k \in {"session_id", "sessionId"} : <<"top", k>> \in S}
                \cup Filled(S) \cup ({x[1]} \cap Containers)
    IN  JDict([k \in keys |->
            IF k = "type" THEN "system"
            ELSE IF k \in {"session_id", "sessionId"} THEN v[<<"top", k>>]
            ELSE IF k = x[1] THEN (IF x[2] = "other" THEN JOther ELSE EmptyDict)
            ELSE JDict([f \in {f \in IdKeys(k) : <<k, f>> \in S} |-> v[<<k, f>>]])])

SlotSets == {S \in SUBSET Slots : Cardinality(S) <= MaxFields}

ExtInit ==
    /\ \E S \in SlotSets : \E v \in [S -> Vals] : \E x \in Extras(S) :
          xEvent = MkEvent(S, v, x)
    /\ xDone = FALSE
    /\ xResult = JNull
    /\ ThIdle
    /\ TpIdle
    /\ TgIdle

Extract ==
    /\ ~xDone
    /\ xDone' = TRUE
    /\ xResult' = ExtractSessionId(xEvent)
    /\ UNCHANGED <<xEvent, thVars, tpVars, tgVars, sessVars, limVars>>

InitExtract == SessInit /\ ExtInit /\ LimIdle
NextExtract == Extract
SpecExtract == InitExtract /\ [][NextExtract]_vars

(***************************************************************************)
(* Claims about _extract_session_id (checked under SpecExtract).           *)
(***************************************************************************)
\* the token locations in the priority order of the claim
Locations ==
    <<<<"top", "session_id">>, <<"top", "sessionId">>,
      <<"init", "session_id">>, <<"init", "sessionId">>,
      <<"system", "session_id">>, <<"system", "sessionId">>,
      <<"result", "session_id">>, <<"result", "sessionId">>,
      <<"metadata", "session_id">>, <<"metadata", "sessionId">>,
      <<"conversation", "id">>>>

ValueAt(event, loc) ==
    IF ~IsDict(event) THEN JNull
    ELSE IF loc[1] = "top" THEN Get(event, loc[2], JNull)
    ELSE IF Has(event, loc[1]) /\ IsDict(event.d[loc[1]])
         THEN Get(event.d[loc[1]], loc[2], JNull)
         ELSE JNull

RECURSIVE FirstNonEmpty(_, _)
FirstNonEmpty(event, i) ==
    IF i > Len(Locations) THEN JNull
    ELSE IF Truthy(ValueAt(event, Locations[i])) THEN ValueAt(event, Locations[i])
    ELSE FirstNonEmpty(event, i + 1)

\* C5: token extraction returns the first non-empty token in the priority
\* order of Locations, and no token only when no location holds a non-empty
\* value (an empty or null value does not hide a token further down).
C5_FirstNonEmptyTokenWins ==
    xDone => (IF Truthy(xResult) THEN xResult ELSE JNull) = FirstNonEmpty(xEvent, 1)

(***************************************************************************)
(* CLIParser.parse_event as a pure function: SpecParse hands it every      *)
(* full-message event (in its three raw shapes) whose content list has at  *)
(* most MaxItems items of ItemSet, and the streaming, error, exit and      *)
(* other events of OtherEvents; xEvent is the event and xResult the result.*)
(***************************************************************************)
ToolUse(name, input) ==
    JDict([type |-> "tool_use", name |-> name, input |-> input])

ItemSet ==
    { JDict([type |-> "text", text |-> "a"]),
      JDict([type |-> "text", text |-> "b"]),
      JDict([type |-> "thinking", thinking |-> "r"]),
      JDict([type |-> "thinking", thinking |-> "s"]),
      ToolUse("Grep", JDict([pattern |-> "x"])),
      ToolUse("Task", JDict([description |-> "d1"])),
      ToolUse("Task", JDict([description |-> "d2"])),
      JDict([type |-> "tool_use", name |-> "Task"]),
      JDict([type |-> "image"]),
      JOther }

ContentLists == UNION {[1..n -> ItemSet] : n \in 0..MaxItems}

\* the raw shapes that carry a message (lines 22-32)
MessageEvents(items) ==
    LET msg == JDict([content |-> JList(items)]) IN
    { JDict([type |-> "assistant", message |-> msg]),
      JDict([type |-> "result", result |-> JDict([message |-> msg])]),
      JDict([type |-> "result", result |-> JDict([text |-> "x"]), message |-> msg]),
      JDict([type |-> "result", result |-> JOther, message |-> msg]) }

OtherEvents ==
    { JOther,
      JDict([type |-> "assistant"]),
      JDict([type |-> "assistant", message |-> JDict([content |-> JOther])]),
      JDict([type |-> "result", result |-> JDict([sessionId |-> "sB"])]),
      JDict([type |-> "content_block_delta",
             delta |-> JDict([type |-> "text_delta", text |-> "a"])]),
      JDict([type |-> "content_block_delta",
             delta |-> JDict([type |-> "thinking_delta", thinking |-> "r"])]),
      JDict([type |-> "content_block_delta",
             delta |-> JDict([type |-> "input_json_delta"])]),
      JDict([type |-> "content_block_delta", delta |-> JOther]),
      JDict([type |-> "content_block_delta"]),
      JDict([type |-> "content_block_start",
             content_block |-> ToolUse("Grep", JDict([pattern |-> "x"]))]),
      JDict([type |-> "content_block_start",
             content_block |-> ToolUse("Task", JDict([description |-> "d1"]))]),
      JDict([type |-> "content_block_start",
             content_block |-> JDict([type |-> "text"])]),
      JDict([type |-> "error", error |-> JDict([message |-> "boom"])]),
      JDict([type |-> "error", error |-> JOther]),
      JDict([type |-> "exit", code |-> 0]),
      JDict([type |-> "exit", code |-> 1]),
      JDict([type |-> "exit"]),
      JDict([type |-> "session_info", session_id |-> "sA"]),
      JDict([type |-> "raw", content |-> "not json"]),
      JDict([type |-> "system", session_id |-> "sA"]) }

ParseInit ==
    /\ \/ \E items \in ContentLists : xEvent \in MessageEvents(items)
       \/ xEvent \in OtherEvents
    /\ xDone = FALSE
    /\ xResult = JNull
    /\ ThIdle
    /\ TpIdle
    /\ TgIdle

Parse ==
    /\ ~xDone
    /\ xDone' = TRUE
    /\ xResult' = ParseEvent(xEvent)
    /\ UNCHANGED <<xEvent, thVars, tpVars, tgVars, sessVars, limVars>>

InitParse == SessInit /\ ParseInit /\ LimIdle
NextParse == Parse
SpecParse == InitParse /\ [][NextParse]_vars

(***************************************************************************)
(* Claims about parse_event (checked under SpecParse).                     *)
(***************************************************************************)
Kinds == {"content", "tool_start", "subagent_start", "error", "complete",
          "session_info", "raw"}

\* C13: every result of parse_event other than the drop has a kind of the
\* closed set Kinds; a streaming reasoning delta gives an event of such a
\* kind that carries the delta's reasoning text and nothing else.
C13_KindsAreClosed ==
    xDone =>
        /\ (xResult # Drop /\ xResult # Raised) => xResult.type \in Kinds
        /\ (/\ IsDict(xEvent)
            /\ Get(xEvent, "type", JNull) = "content_block_delta"
            /\ IsDict(Get(xEvent, "delta", JOther))
            /\ Get(xEvent.d.delta, "type", JNull) = "thinking_delta") =>
               /\ xResult.type \in Kinds
               /\ \E k \in DOMAIN xResult \ {"type"} :
                     /\ DOMAIN xResult = {"type", k}
                     /\ xResult[k] = xEvent.d.delta.d.thinking

\* the message a full-message event carries: for a result event the one
\* nested in its result, if there is one, and else the one at top level
MessageOf(ev) ==
    IF /\ ev.d.type = "result"
       /\ "result" \in DOMAIN ev.d
       /\ ev.d.result.kind = "dict"
       /\ "message" \in DOMAIN ev.d.result.d
    THEN ev.d.result.d.message
    ELSE IF "message" \in DOMAIN ev.d THEN ev.d.message
    ELSE JOther

IsMessageEvent(ev) ==
    /\ ev.kind = "dict"
    /\ "type" \in DOMAIN ev.d
    /\ ev.d.type \in {"assistant", "result"}
    /\ MessageOf(ev).kind = "dict"
    /\ "content" \in DOMAIN MessageOf(ev).d
    /\ MessageOf(ev).d.content.kind = "list"

CarriedItems(ev) == MessageOf(ev).d.content.items

OfType(items, ty) ==
    SelectSeq(items, LAMBDA c : c.kind = "dict" /\ "type" \in DOMAIN c.d /\ c.d.type = ty)

DescriptionOf(item) ==
    IF "input" \in DOMAIN item.d /\ "description" \in DOMAIN item.d.input.d
    THEN item.d.input.d.description
    ELSE "Subagent"

RECURSIVE Joined(_, _, _)
Joined(items, field, sep) ==
    IF Len(items) = 0 THEN ""
    ELSE Joined(SubSeq(items, 1, Len(items) - 1), field, sep)
         \o (IF Len(items) > 1 THEN sep ELSE "") \o items[Len(items)].d[field]

\* C14: for a full-message event, when the content list has tool_use items
\* the result is subagent_start with one description per Task item, in list
\* order, if there is a Task item, and otherwise tool_start with all the
\* tool_use records in list order, and never content; when it has none but
\* has text or thinking items the result is one content event with the
\* texts concatenated and the thinking items joined by a newline.
C14_ToolUseThenContent ==
    (xDone /\ IsMessageEvent(xEvent)) =>
        LET items == CarriedItems(xEvent)
            tools == OfType(items, "tool_use")
            tasks == SelectSeq(tools, LAMBDA c : c.d.name = "Task")
            texts == OfType(items, "text")
            thinks == OfType(items, "thinking")
        IN  IF tasks # <<>> THEN
                /\ DOMAIN xResult = {"type", "tasks"}
                /\ xResult.type = "subagent_start"
                /\ Len(xResult.tasks) = Len(tasks)
                /\ \A k \in 1..Len(tasks) : xResult.tasks[k] = DescriptionOf(tasks[k])
            ELSE IF tools # <<>> THEN
                xResult = [type |-> "tool_start", tools |-> tools]
            ELSE IF texts # <<>> \/ thinks # <<>> THEN
                /\ xResult.type = "content"
                /\ DOMAIN xResult = {"type"} \cup (IF texts # <<>> THEN {"text"} ELSE {})
                                            \cup (IF thinks # <<>> THEN {"thinking"} ELSE {})
                /\ texts # <<>> => xResult.text = Joined(texts, "text", "")
                /\ thinks # <<>> => xResult.thinking = Joined(thinks, "thinking", "\n")
            ELSE TRUE

\* C14 witness: a message whose content list holds a Task item with a
\* description, another tool_use item and a Task item without input has
\* been parsed to subagent_start with the two descriptions.
C14_Witness ==
    /\ xDone
    /\ IsMessageEvent(xEvent)
    /\ Len(OfType(CarriedItems(xEvent), "tool_use")) = 3
    /\ xResult = [type |-> "subagent_start", tasks |-> <<"d1", "Subagent">>]

(***************************************************************************)
(* ThinkTagParser (providers/utils/think_parser.py), the think-delimiter   *)
(* splitter.  A text is a sequence of characters.  feed appends the chunk  *)
(* to the held-back suffix and scans for the delimiter of the current      *)
(* mode; each match emits what precedes it as a span of the mode's type    *)
(* and flips the mode; of what is left, the longest suffix that is a       *)
(* prefix of the watched delimiter is held back and the rest is emitted.   *)
(* A span with no content is not emitted.                                  *)
(***************************************************************************)
OpenTag == <<"<", "t", "h", "i", "n", "k", ">">>
CloseTag == <<"<", "/", "t", "h", "i", "n", "k", ">">>

Watched(mode) == IF mode = "OUTSIDE" THEN OpenTag ELSE CloseTag
Flip(mode) == IF mode = "OUTSIDE" THEN "INSIDE" ELSE "OUTSIDE"
SpanType(mode) == IF mode = "OUTSIDE" THEN "TEXT" ELSE "THINKING"

Min(a, b) == IF a < b THEN a ELSE b
Prefix(seq, n) == SubSeq(seq, 1, n)
Suffix(seq, n) == SubSeq(seq, Len(seq) - n + 1, Len(seq))

\* the first position at which pat occurs in buf, 0 if there is none
Find(buf, pat) ==
    LET at == {i \in 1..(Len(buf) - Len(pat) + 1) :
                 SubSeq(buf, i, i + Len(pat) - 1) = pat}
    IN  IF at = {} THEN 0 ELSE CHOOSE i \in at : \A j \in at : i <= j

\* Mutant of HeldLen: nothing is held back.
HeldLen_Nothing(buf, pat) == 0

\* the length of the longest suffix of buf that is a proper prefix of pat
HeldLen(buf, pat) ==
    LET ks == {k \in 0..Min(Len(buf), Len(pat) - 1) : Suffix(buf, k) = Prefix(pat, k)}
    IN  CHOOSE k \in ks : \A j \in ks : j <= k

EmitSpan(spans, mode, content) ==
    IF content = <<>> THEN spans
    ELSE Append(spans, [type |-> SpanType(mode), content |-> content])

RECURSIVE Scan(_, _, _)
Scan(buf, mode, spans) ==
    LET pat == Watched(mode)
        i == Find(buf, pat)
    IN  IF i # 0
        THEN Scan(SubSeq(buf, i + Len(pat), Len(buf)), Flip(mode),
                  EmitSpan(spans, mode, Prefix(buf, i - 1)))
        ELSE LET k == HeldLen(buf, pat) IN
             [spans |-> EmitSpan(spans, mode, Prefix(buf, Len(buf) - k)),
              mode |-> mode,
              held |-> Suffix(buf, k)]

\* ThinkTagParser.feed(chunk) in the state (mode, held)
FeedThink(mode, held, chunk) == Scan(held \o chunk, mode, <<>>)

\* the spans with adjacent spans of one type merged
RECURSIVE Merge(_)
Merge(spans) ==
    IF Len(spans) <= 1 THEN spans
    ELSE LET m == Merge(Prefix(spans, Len(spans) - 1))
             x == spans[Len(spans)]
         IN  IF m[Len(m)].type = x.type
             THEN [m EXCEPT ![Len(m)].content = @ \o x.content]
             ELSE Append(m, x)

\* The texts fed: up to MaxSegs of these pieces, one after the other.
Pieces ==
    { <<"a">>, <<"<">>, OpenTag, CloseTag,
      <<"<", "t", "h", "i">>, <<"n", "k", ">">>, <<"<", "/">> }

RECURSIVE Flatten(_)
Flatten(ss) == IF ss = <<>> THEN <<>> ELSE Head(ss) \o Flatten(Tail(ss))

ThinkInit ==
    /\ \E n \in 0..MaxSegs : \E ps \in [1..n -> Pieces] : thText = Flatten(ps)
    /\ thRest = thText
    /\ thMode = "OUTSIDE"
    /\ thHeld = <<>>
    /\ thOut = <<>>

\* One call of feed, with a chunk of any length cut from what is left.
Feed ==
    \E n \in 1..Len(thRest) :
        LET r == FeedThink(thMode, thHeld, Prefix(thRest, n)) IN
        /\ thRest' = SubSeq(thRest, n + 1, Len(thRest))
        /\ thMode' = r.mode
        /\ thHeld' = r.held
        /\ thOut' = Merge(thOut \o r.spans)
        /\ UNCHANGED <<thText, tpVars, tgVars, xEvent, xDone, xResult, sessVars, limVars>>

InitThink == SessInit /\ xEvent = JOther /\ xDone = FALSE /\ xResult = JNull
             /\ ThinkInit /\ TpIdle /\ TgIdle /\ LimIdle
NextThink == Feed
SpecThink == InitThink /\ [][NextThink]_vars

(***************************************************************************)
(* Claims about the think-delimiter splitter (checked under SpecThink).    *)
(***************************************************************************)
Fed == Prefix(thText, Len(thText) - Len(thRest))
InOneCall == Scan(Fed, "OUTSIDE", <<>>)

\* the characters of the spans, in order
RECURSIVE Contents(_)
Contents(spans) ==
    IF spans = <<>> THEN <<>> ELSE Head(spans).content \o Contents(Tail(spans))

\* text with the delimiters that match, in turn open and close, cut out
RECURSIVE Undelimited(_, _)
Undelimited(text, mode) ==
    LET i == Find(text, Watched(mode)) IN
    IF i = 0 THEN text
    ELSE Prefix(text, i - 1)
         \o Undelimited(SubSeq(text, i + Len(Watched(mode)), Len(text)), Flip(mode))

\* C15: however the text fed so far was cut into chunks, the spans emitted
\* (adjacent spans of one type merged), the held-back text and the mode are
\* those of feeding it in one call; the characters emitted and held back
\* are, in order, the text without its delimiters: none lost, none twice.
C15_ChunkInvariance ==
    /\ thOut = Merge(InOneCall.spans)
    /\ thHeld = InOneCall.held
    /\ thMode = InOneCall.mode
    /\ Contents(thOut) \o thHeld = Undelimited(Fed, "OUTSIDE")

\* C15 witness: of "a<think>a</think>" the chunk "a<thi" has been fed: the
\* call emitted the visible span "a" and holds "<thi" back.
C15_Witness ==
    /\ thText = <<"a">> \o OpenTag \o <<"a">> \o CloseTag
    /\ thRest = <<"n", "k", ">", "a">> \o CloseTag
    /\ thOut = <<[type |-> "TEXT", content |-> <<"a">>]>>
    /\ thHeld = <<"<", "t", "h", "i">>
    /\ thMode = "OUTSIDE"

\* the input not yet processed: what follows the last delimiter matched,
\* the delimiters being matched in turn, open and close
RECURSIVE Unprocessed(_, _)
Unprocessed(text, mode) ==
    LET i == Find(text, Watched(mode)) IN
    IF i = 0 THEN text
    ELSE Unprocessed(SubSeq(text, i + Len(Watched(mode)), Len(text)), Flip(mode))

LongerTagLen == IF Len(OpenTag) > Len(CloseTag) THEN Len(OpenTag) ELSE Len(CloseTag)

\* C21: after every feed call the held-back text is a suffix of the
\* unprocessed input and a proper prefix of the delimiter watched for in
\* the current mode, no longer suffix is one, it is in no span emitted (the
\* spans hold exactly the rest of the content), and it is no longer than
\* the longer delimiter less one character.
C21_HeldIsLongestPartialDelimiter ==
    LET rem == Unprocessed(Fed, "OUTSIDE")
        pat == IF thMode = "OUTSIDE" THEN OpenTag ELSE CloseTag
        h == Len(thHeld)
        content == Undelimited(Fed, "OUTSIDE")
    IN  /\ h <= Len(rem)
        /\ h < Len(pat)
        /\ thHeld = SubSeq(rem, Len(rem) - h + 1, Len(rem))
        /\ thHeld = SubSeq(pat, 1, h)
        /\ \A k \in (h + 1)..(Len(pat) - 1) :
               k <= Len(rem) => SubSeq(rem, Len(rem) - k + 1, Len(rem)) # SubSeq(pat, 1, k)
        /\ Contents(thOut) = SubSeq(content, 1, Len(content) - h)
        /\ h <= LongerTagLen - 1

\* C21 witness: "<think>a</" has been fed: the parser is INSIDE, has
\* emitted the reasoning span "a" and holds "</" back.
C21_Witness ==
    /\ thText = OpenTag \o <<"a", "<", "/">>
    /\ thRest = <<>>
    /\ thMode = "INSIDE"
    /\ thHeld = <<"<", "/">>
    /\ thOut = <<[type |-> "THINKING", content |-> <<"a">>]>>

(***************************************************************************)
(* HeuristicToolParser (providers/utils/heuristic_tool_parser.py), the     *)
(* heuristic tool-call extractor.  It recognizes a bullet glyph, a header  *)
(* tag  <function=NAME>  and parameter tags  <parameter=KEY>VALUE          *)
(* </parameter>  in the text it is fed.  feed appends the chunk to the     *)
(* held-back text and returns the filtered text and the calls completed by *)
(* this chunk; flush returns the call still in progress.                   *)
(*                                                                         *)
(* OUTSIDE, the text up to the first bullet is filtered text; a bullet     *)
(* followed by a whole header starts a call, a bullet followed by the      *)
(* beginning of a header is held back, any other bullet is ordinary text.  *)
(* IN_CALL, a whole parameter tag with its value and close tag is added to *)
(* the parameter map; a tag or a value that is not yet whole is held back; *)
(* any other content ends the call if a parameter has been closed: the     *)
(* call is reported, the state is OUTSIDE again and the content is scanned *)
(* as ordinary text.  Policy for a call with no closed parameter: such     *)
(* content is filtered text and the call stays in progress until flush.    *)
(***************************************************************************)
Bullet == "●"
FuncOpen == <<"<", "f", "u", "n", "c", "t", "i", "o", "n", "=">>
ParamOpen == <<"<", "p", "a", "r", "a", "m", "e", "t", "e", "r", "=">>
ParamClose == <<"<", "/", "p", "a", "r", "a", "m", "e", "t", "e", "r", ">">>
TagEnd == ">"
Blank == {" ", "\n"}

IsPrefixOf(a, b) == Len(a) <= Len(b) /\ Prefix(b, Len(a)) = a

\* the first position from `from` on at which buf has the character c, 0 if none
FindChar(buf, c, from) ==
    LET at == {i \in from..Len(buf) : buf[i] = c}
    IN  IF at = {} THEN 0 ELSE CHOOSE i \in at : \A j \in at : i <= j

SkipBlanks(buf) ==
    LET at == {i \in 1..Len(buf) : buf[i] \notin Blank}
    IN  IF at = {} THEN <<>>
        ELSE SubSeq(buf, CHOOSE i \in at : \A j \in at : i <= j, Len(buf))

\* Mutant of TrimRight: the trailing whitespace is kept.
TrimRight_Keep(text) == text

TrimRight(text) ==
    LET at == {i \in 1..Len(text) : text[i] \notin Blank}
    IN  IF at = {} THEN <<>>
        ELSE Prefix(text, CHOOSE i \in at : \A j \in at : j <= i)

Scanned(kind, name, value, rest) ==
    [kind |-> kind, name |-> name, value |-> value, rest |-> rest]

\* Mutant of TagAt: the beginning of a tag is not held back.
TagAt_NoHold(buf, open) ==
    LET g == FindChar(buf, TagEnd, Len(open) + 1) IN
    IF IsPrefixOf(open, buf) /\ g # 0
    THEN Scanned("ok", SubSeq(buf, Len(open) + 1, g - 1), <<>>,
                 SubSeq(buf, g + 1, Len(buf)))
    ELSE Scanned(IF buf = <<>> THEN "partial" ELSE "none", <<>>, <<>>, buf)

\* What stands at the head of buf: a whole tag  open NAME >  ("ok"), the
\* beginning of one ("partial": more text may complete it), or neither.
TagAt(buf, open) ==
    IF Len(buf) < Len(open)
    THEN Scanned(IF IsPrefixOf(buf, open) THEN "partial" ELSE "none", <<>>, <<>>, buf)
    ELSE IF Prefix(buf, Len(open)) # open
    THEN Scanned("none", <<>>, <<>>, buf)
    ELSE LET g == FindChar(buf, TagEnd, Len(open) + 1) IN
         IF g = 0 THEN Scanned("partial", <<>>, <<>>, buf)
         ELSE Scanned("ok", SubSeq(buf, Len(open) + 1, g - 1), <<>>,
                      SubSeq(buf, g + 1, Len(buf)))

\* buf starts with the bullet: the header tag that follows it
HeaderAt(buf) == TagAt(SkipBlanks(Tail(buf)), FuncOpen)

\* What stands at the head of buf in a call: a parameter with its close
\* tag ("closed"), a parameter whose value is not closed yet ("open"), the
\* beginning of a parameter tag ("partial"), or other content ("none").
ParamAt(buf) ==
    LET t == TagAt(buf, ParamOpen) IN
    IF t.kind # "ok" THEN t
    ELSE LET c == Find(t.rest, ParamClose) IN
         IF c = 0 THEN Scanned("open", t.name, t.rest, <<>>)
         ELSE Scanned("closed", t.name, Prefix(t.rest, c - 1),
                      SubSeq(t.rest, c + Len(ParamClose), Len(t.rest)))

NoParams == <<>>
Put(params, key, value) == (key :> value) @@ params
ToolCall(name, params) == [name |-> name, input |-> params]

\* Mutant of Terminates: content never ends a call.
Terminates_Never(params) == FALSE

\* the termination heuristic: content that is no parameter tag ends the
\* call when at least one parameter has been closed
Terminates(params) == DOMAIN params # {}

\* The scan of feed.  p is the parser with the buffer still to be scanned,
\* the filtered text and the calls of this feed so far.
RECURSIVE ScanTool(_)
ScanTool(p) ==
    IF p.state = "OUTSIDE"
    THEN LET i == FindChar(p.buf, Bullet, 1) IN
         IF i = 0
         THEN [p EXCEPT !.filtered = @ \o p.buf, !.buf = <<>>]
         ELSE LET h == HeaderAt(SubSeq(p.buf, i, Len(p.buf))) IN
              IF h.kind = "ok"
              THEN ScanTool([p EXCEPT !.state = "IN_CALL",
                                      !.name = h.name,
                                      !.params = NoParams,
                                      !.filtered = @ \o Prefix(p.buf, i - 1),
                                      !.buf = h.rest])
              ELSE IF h.kind = "partial"
              THEN [p EXCEPT !.filtered = @ \o Prefix(p.buf, i - 1),
                             !.buf = SubSeq(p.buf, i, Len(p.buf))]
              ELSE ScanTool([p EXCEPT !.filtered = @ \o Prefix(p.buf, i),
                                      !.buf = SubSeq(p.buf, i + 1, Len(p.buf))])
    ELSE LET t == ParamAt(p.buf) IN
         IF t.kind = "closed"
         THEN ScanTool([p EXCEPT !.params = Put(@, t.name, t.value), !.buf = t.rest])
         ELSE IF t.kind \in {"partial", "open"}
         THEN p
         ELSE IF Terminates(p.params)
         THEN ScanTool([p EXCEPT !.state = "OUTSIDE",
                                 !.calls = Append(@, ToolCall(p.name, p.params)),
                                 !.name = <<>>,
                                 !.params = NoParams])
         ELSE ScanTool([p EXCEPT !.filtered = @ \o Prefix(p.buf, 1),
                                 !.buf = Tail(p.buf)])

\* HeuristicToolParser.feed(chunk) in the state (state, buf, name, params)
FeedToolParser(state, buf, name, params, chunk) ==
    ScanTool([state |-> state, buf |-> buf \o chunk, name |-> name, params |-> params,
              filtered |-> <<>>, calls |-> <<>>])

\* HeuristicToolParser.flush() in the state (state, buf, name, params): the
\* call in progress, a parameter that was never closed taking the text
\* accumulated for it without its trailing whitespace
FlushToolParser(state, buf, name, params) ==
    IF state # "IN_CALL" THEN <<>>
    ELSE LET t == ParamAt(buf) IN
         <<ToolCall(name, IF t.kind = "open"
                          THEN Put(params, t.name, TrimRight(t.value))
                          ELSE params)>>

\* The inputs fed: prose or nothing, then a bullet, the header  Grep  and up
\* to MaxParams closed parameters, then a tail: nothing, a parameter whose
\* value is never closed, a line break and prose, a cut parameter tag, or a
\* line break and a second call.  The prose before may hold a bullet that
\* starts no call.  A second call follows only a call with a closed
\* parameter: what ends a call without one is left open (see above).
Pres == { <<>>, <<"a", " ">>, <<"a", Bullet, "b", " ">> }
ParamSet ==
    { [key |-> <<"p">>, value |-> <<"h", "i">>],
      [key |-> <<"q">>, value |-> <<".">>] }
OpenParam == [key |-> <<"c">>, value |-> <<"l", "s", " ", "-", "l", " ", "\n">>]
Prose == <<"\n", "D", ".">>
SecondParam == [key |-> <<"f">>, value |-> <<"t">>]
SecondName == <<"W">>
Tails == {"none", "open", "prose", "cut", "call"}

RenderParam(q) == ParamOpen \o q.key \o <<TagEnd>> \o q.value \o ParamClose

RECURSIVE RenderParams(_)
RenderParams(qs) ==
    IF qs = <<>> THEN <<>> ELSE RenderParam(Head(qs)) \o RenderParams(Tail(qs))

\* the input up to the end of the last closed parameter
RenderCall(c) ==
    c.pre \o <<Bullet, " ">> \o FuncOpen \o c.name \o <<TagEnd>> \o RenderParams(c.params)

RenderTail(tail) ==
    CASE tail = "none" -> <<>>
      [] tail = "open" -> ParamOpen \o OpenParam.key \o <<TagEnd>> \o OpenParam.value
      [] tail = "prose" -> Prose
      [] tail = "cut" -> Prefix(ParamOpen, 4)
      [] tail = "call" -> <<"\n", Bullet>> \o FuncOpen \o SecondName \o <<TagEnd>>
                          \o RenderParam(SecondParam)

Render(c) == RenderCall(c) \o RenderTail(c.tail)

ToolInit ==
    /\ \E pre \in Pres : \E n \in 0..MaxParams : \E qs \in [1..n -> ParamSet] :
       \E tail \in Tails :
           /\ tail = "call" => n >= 1
           /\ tpCase = [pre |-> pre, name |-> <<"G", "r", "e", "p">>, params |-> qs,
                     tail |-> tail]
    /\ tpRest = Render(tpCase)
    /\ tpState = "OUTSIDE"
    /\ tpBuf = <<>>
    /\ tpName = <<>>
    /\ tpParams = NoParams
    /\ tpFiltered = <<>>
    /\ tpCalls = <<>>
    /\ tpFlushCalls = <<>>
    /\ tpFlushes = 0

\* One call of feed, with a chunk of any length cut from what is left.
FeedTool ==
    /\ tpFlushes = 0
    /\ \E n \in 1..Len(tpRest) :
        LET r == FeedToolParser(tpState, tpBuf, tpName, tpParams, Prefix(tpRest, n)) IN
        /\ tpRest' = SubSeq(tpRest, n + 1, Len(tpRest))
        /\ tpState' = r.state
        /\ tpBuf' = r.buf
        /\ tpName' = r.name
        /\ tpParams' = r.params
        /\ tpFiltered' = tpFiltered \o r.filtered
        /\ tpCalls' = tpCalls \o r.calls
    /\ UNCHANGED <<tpCase, tpFlushCalls, tpFlushes>>
    /\ UNCHANGED <<xEvent, xDone, xResult, thVars, tgVars, sessVars, limVars>>

\* Mutant of FlushedState: flush leaves the state as it is.
FlushedState_Kept(state) == state

\* the state flush leaves the parser in
FlushedState(state) == "OUTSIDE"

\* One call of flush, at the end of the stream.
Flush ==
    /\ tpRest = <<>>
    /\ tpFlushes < MaxFlushes
    /\ tpFlushCalls' = tpFlushCalls \o FlushToolParser(tpState, tpBuf, tpName, tpParams)
    /\ tpFlushes' = tpFlushes + 1
    /\ tpState' = FlushedState(tpState)
    /\ tpBuf' = <<>>
    /\ tpName' = <<>>
    /\ tpParams' = NoParams
    /\ UNCHANGED <<tpCase, tpRest, tpFiltered, tpCalls>>
    /\ UNCHANGED <<xEvent, xDone, xResult, thVars, tgVars, sessVars, limVars>>

InitTool == SessInit /\ xEvent = JOther /\ xDone = FALSE /\ xResult = JNull
            /\ ThIdle /\ ToolInit /\ TgIdle /\ LimIdle
NextTool == FeedTool \/ Flush
SpecTool == InitTool /\ [][NextTool]_vars

(***************************************************************************)
(* Claims about the heuristic tool-call extractor (checked under           *)
(* SpecTool).                                                              *)
(***************************************************************************)
\* the number of characters fed so far
ToolFed == Len(Render(tpCase)) - Len(tpRest)
\* the position of the last character of the marker sequence
MarkEnd == Len(RenderCall(tpCase))

\* the parameter map of the parameters qs, a later one replacing an earlier
MapOf(qs) ==
    [k \in {qs[i].key : i \in DOMAIN qs} |->
        LET at == {i \in DOMAIN qs : qs[i].key = k}
        IN  qs[CHOOSE i \in at : \A j \in at : j <= i].value]

\* the call of the input, without and with its never-closed parameter
ClosedCall == [name |-> tpCase.name, input |-> MapOf(tpCase.params)]
FlushedCall ==
    [name |-> tpCase.name,
     input |-> MapOf(Append(tpCase.params,
                            [key |-> OpenParam.key,
                             value |-> <<"l", "s", " ", "-", "l">>]))]

\* C16: when the input ends while its call is in progress (the marker
\* sequence with nothing after it, or a parameter value never closed), no
\* feed call reports a call, and flush reports exactly one call: the name
\* and the parameter map, the unclosed value without trailing whitespace.
C16_FlushFinalizes ==
    tpCase.tail \in {"none", "open"} =>
        /\ tpCalls = <<>>
        /\ tpFlushes = 0 => tpFlushCalls = <<>>
        /\ tpFlushes >= 1 =>
               tpFlushCalls = <<IF tpCase.tail = "open" THEN FlushedCall ELSE ClosedCall>>

\* C16 witness: the input  ● <function=Grep><parameter=p>hi</parameter>
\* <parameter=c>ls -l \n  has been fed and flushed once: flush reported the
\* call Grep with p = "hi" and c = "ls -l".
C16_Witness ==
    /\ tpCase.tail = "open"
    /\ Len(tpCase.params) = 1
    /\ tpFlushes = 1
    /\ tpCalls = <<>>
    /\ tpFlushCalls = <<[name |-> <<"G", "r", "e", "p">>,
                         input |-> (<<"p">> :> <<"h", "i">>)
                                   @@ (<<"c">> :> <<"l", "s", " ", "-", "l">>)]>>

\* C17: for a call with at least one closed parameter followed by a line
\* break and prose, no feed call reports a call while only the marker
\* sequence has been fed (the filtered text is then part of the text before
\* the call); the feed call that delivers the first character
\* after it reports the call, leaves the parser OUTSIDE, and the prose
\* delivered so far is in the filtered text, after the text before the call.
C17_ProseTerminates ==
    (tpCase.tail = "prose" /\ Len(tpCase.params) >= 1 /\ tpFlushes = 0) =>
        IF ToolFed <= MarkEnd
        THEN /\ tpCalls = <<>>
             /\ IsPrefixOf(tpFiltered, tpCase.pre)
        ELSE /\ tpCalls = <<ClosedCall>>
             /\ tpState = "OUTSIDE"
             /\ tpFiltered = tpCase.pre \o Prefix(Prose, ToolFed - MarkEnd)

\* C17 witness: of  ● <function=Grep><parameter=p>hi</parameter>\nD.  all
\* has been fed: a feed call reported Grep with p = "hi", the parser is
\* OUTSIDE and the prose is in the filtered text.
C17_Witness ==
    /\ tpCase.tail = "prose"
    /\ tpCase.pre = <<>>
    /\ tpRest = <<>>
    /\ tpFlushes = 0
    /\ tpCalls = <<[name |-> <<"G", "r", "e", "p">>, input |-> (<<"p">> :> <<"h", "i">>)]>>
    /\ tpState = "OUTSIDE"
    /\ tpFiltered = <<"\n", "D", ".">>

\* the calls of the input, in order
SecondCall == [name |-> SecondName, input |-> MapOf(<<SecondParam>>)]
CallsOfInput ==
    CASE tpCase.tail = "open" -> <<FlushedCall>>
      [] tpCase.tail = "call" -> <<ClosedCall, SecondCall>>
      [] OTHER -> <<ClosedCall>>

\* all the calls reported so far: those of the feed calls, then of flush
Reported == tpCalls \o tpFlushCalls

\* C22: the calls reported by the feed calls and by flush are, in order,
\* calls of the input, each at most once; once flush has been called each
\* has been reported exactly once, whether by a feed call or by flush, and
\* a second flush adds nothing.
C22_ReportedOnce ==
    /\ Len(Reported) <= Len(CallsOfInput)
    /\ Reported = SubSeq(CallsOfInput, 1, Len(Reported))
    /\ tpFlushes >= 1 => Reported = CallsOfInput

\* C22 witness: of an input with two calls all has been fed and flush has
\* been called twice: a feed call reported the first call, the first flush
\* the second one.
C22_Witness ==
    /\ tpCase.tail = "call"
    /\ tpFlushes = 2
    /\ Len(tpCalls) = 1
    /\ tpFlushCalls = <<[name |-> <<"W">>, input |-> (<<"f">> :> <<"t">>)]>>

\* the text fed so far, and the parser after feeding it in one call
ToolFedText == SubSeq(Render(tpCase), 1, ToolFed)
ToolInOneCall == FeedToolParser("OUTSIDE", <<>>, <<>>, NoParams, ToolFedText)

\* the characters of the text fed so far that are outside the marker
\* syntax: the text before the call and, after it, the prose or the line
\* break before a second call
OrdinaryFed ==
    LET after == CASE tpCase.tail = "prose" -> Prose
                   [] tpCase.tail = "call" -> <<"\n">>
                   [] OTHER -> <<>>
        n == IF ToolFed - MarkEnd > Len(after) THEN Len(after)
             ELSE IF ToolFed > MarkEnd THEN ToolFed - MarkEnd ELSE 0
    IN  IF ToolFed <= Len(tpCase.pre) THEN ToolFedText
        ELSE tpCase.pre \o SubSeq(after, 1, n)

\* C23: however the text fed so far was cut into chunks, the filtered
\* texts joined, the calls reported and the parser's state are those of
\* feeding it in one call, and flush reports what it reports after that one
\* call; the filtered text holds only characters outside the marker
\* syntax, in order and unchanged, all of them once whatever can still
\* become a marker has been decided.
C23_ToolChunkInvariance ==
    /\ tpFiltered = ToolInOneCall.filtered
    /\ tpCalls = ToolInOneCall.calls
    /\ tpFlushes = 0 =>
           /\ tpState = ToolInOneCall.state
           /\ tpBuf = ToolInOneCall.buf
           /\ tpName = ToolInOneCall.name
           /\ tpParams = ToolInOneCall.params
    /\ tpFlushes >= 1 =>
           tpFlushCalls = FlushToolParser(ToolInOneCall.state, ToolInOneCall.buf,
                                          ToolInOneCall.name, ToolInOneCall.params)
    /\ IsPrefixOf(tpFiltered, OrdinaryFed)
    /\ (tpState = "IN_CALL" \/ tpBuf = <<>>) => tpFiltered = OrdinaryFed

\* C23 witness: of  a●b ● <function=Grep><parameter=p>hi</parameter>\nD.  the
\* text up to  <function=Gr  has been fed in chunks: the filtered text is
\* "a●b " and the bullet with the cut header is held back.
C23_Witness ==
    /\ tpCase.pre = <<"a", Bullet, "b", " ">>
    /\ tpCase.tail = "prose"
    /\ Len(tpCase.params) = 1
    /\ tpState = "OUTSIDE"
    /\ tpBuf = <<Bullet, " ">> \o FuncOpen \o <<"G", "r">>
    /\ tpFiltered = <<"a", Bullet, "b", " ">>
    /\ tpCalls = <<>>

(***************************************************************************)
(* TelegramPlatform (messaging/telegram.py), the chat adapter.  An inbound *)
(* event has a sender (a number, or NoSender for None), a text and a chat. *)
(* _handle_event runs to its end for one event before the next; the        *)
(* handler it awaits returns or raises, and the error notice it then sends *)
(* goes out or fails.                                                      *)
(***************************************************************************)
NoSender == 0
Senders == {NoSender, 7, 8}
Texts == {"", "hi"}
Chats == {1, 2}
Events == [sender_id : Senders, text : Texts, chat_id : Chats]

\* The values of allowed_user_id: none (<<>>: None or "", both falsy), the
\* digits of a sender, or those with whitespace or a zero around them.
AllowedIds ==
    { <<>>, <<"7">>, <<" ", "7", "\n">>, <<"0", "7">>, <<"8">> }

Digit(d) == CASE d = 0 -> "0" [] d = 1 -> "1" [] d = 2 -> "2" [] d = 3 -> "3"
              [] d = 4 -> "4" [] d = 5 -> "5" [] d = 6 -> "6" [] d = 7 -> "7"
              [] d = 8 -> "8" [] d = 9 -> "9"

RECURSIVE Decimal(_)
Decimal(n) == IF n < 10 THEN <<Digit(n)>> ELSE Append(Decimal(n \div 10), Digit(n % 10))

\* str(event.sender_id)
Str(sender_id) ==
    IF sender_id = NoSender THEN <<"N", "o", "n", "e">> ELSE Decimal(sender_id)

\* str.strip(): the whitespace at both ends is removed
Strip(text) ==
    LET at == {i \in 1..Len(text) : text[i] \notin Blank} IN
    IF at = {} THEN <<>>
    ELSE SubSeq(text, CHOOSE i \in at : \A j \in at : i <= j,
                      CHOOSE i \in at : \A j \in at : j <= i)

\* Mutant of Authorized: every sender passes the check.
Authorized_Anyone(sender_id, allowed) == TRUE

\* the security check of lines 228-233: the event goes on when no allowed
\* sender is configured or the sender's string equals the stripped setting
Authorized(sender_id, allowed) ==
    allowed # <<>> => Str(sender_id) = Strip(allowed)

TgInit ==
    /\ allowed_user_id \in AllowedIds
    /\ message_handler = FALSE
    /\ entity_cache = {}
    /\ inbound = <<>>
    /\ delivered = <<>>
    /\ sent = <<>>

\* on_message, lines 213-218
OnMessage ==
    /\ ~message_handler
    /\ message_handler' = TRUE
    /\ UNCHANGED <<allowed_user_id, entity_cache, inbound, delivered, sent>>

\* _handle_event, lines 225-267, for the event e; raises: the handler
\* raises; sends: the error notice is sent (else send_message raises)
HandleEvent(e, raises, sends) ==
    /\ Len(inbound) < MaxEvents
    /\ inbound' = Append(inbound, e)
    /\ IF ~Authorized(e.sender_id, allowed_user_id) \/ e.text = "" \/ ~message_handler
       THEN UNCHANGED <<delivered, sent, entity_cache>>
       ELSE /\ delivered' = Append(delivered, e)
            /\ IF raises /\ sends
               THEN /\ sent' = Append(sent, [chat_id |-> e.chat_id,
                                             reply_to |-> Len(inbound) + 1])
                    /\ entity_cache' = entity_cache \cup {e.chat_id}
               ELSE UNCHANGED <<sent, entity_cache>>
    /\ UNCHANGED <<allowed_user_id, message_handler>>

InitAdapter == SessInit /\ xEvent = JOther /\ xDone = FALSE /\ xResult = JNull
               /\ ThIdle /\ TpIdle /\ TgInit /\ LimIdle
NextAdapter ==
    \/ OnMessage /\ UNCHANGED <<xEvent, xDone, xResult, thVars, tpVars, sessVars, limVars>>
    \/ \E e \in Events : \E raises \in BOOLEAN : \E sends \in BOOLEAN :
           /\ HandleEvent(e, raises, sends)
           /\ UNCHANGED <<xEvent, xDone, xResult, thVars, tpVars, sessVars, limVars>>
SpecAdapter == InitAdapter /\ [][NextAdapter]_vars

(***************************************************************************)
(* Claims about the chat adapter (checked under SpecAdapter).              *)
(***************************************************************************)
\* the sender the setting names: the number its digits spell, the
\* whitespace around them left out
RECURSIVE Spelled(_, _)
Spelled(chars, n) ==
    IF chars = <<>> THEN n
    ELSE Spelled(Tail(chars),
                 IF Head(chars) \in Blank THEN n
                 ELSE 10 * n + (CHOOSE d \in 0..9 : Digit(d) = Head(chars)))

AllowedSender == Spelled(allowed_user_id, 0)
Differs(sender_id) == sender_id = NoSender \/ sender_id # AllowedSender

\* C25: with an allowed sender configured, every event delivered to the
\* handler is from that sender; and handling an event of another sender
\* delivers nothing, sends nothing and changes nothing of the adapter.
C25_OnlyAllowedSenderDelivered ==
    /\ [](allowed_user_id # <<>> =>
             \A k \in 1..Len(delivered) : ~Differs(delivered[k].sender_id))
    /\ [][(allowed_user_id # <<>> /\ inbound' # inbound
             /\ Differs(inbound'[Len(inbound')].sender_id)) =>
              UNCHANGED <<delivered, sent, entity_cache, message_handler,
                          allowed_user_id>>]_vars

\* C25 witness: with " 7\n" configured and a handler registered, an event
\* of sender 8 and then one of sender 7 have come in: only the second was
\* delivered, and the notice of the handler's failure was sent for it.
C25_Witness ==
    /\ allowed_user_id = <<" ", "7", "\n">>
    /\ Len(inbound) = 2
    /\ inbound[1].sender_id = 8 /\ inbound[1].text = "hi"
    /\ inbound[2].sender_id = 7
    /\ delivered = <<inbound[2]>>
    /\ Len(sent) = 1

(***************************************************************************)
(* GlobalRateLimiter.  Submitters run on one event loop, whose ready queue *)
(* is served in call_soon order; the worker is a thread of its own.  Time  *)
(* passes by Tick, whatever the loop has ready: the loop may be busy with  *)
(* other callbacks for any length of time.                                 *)
(*                                                                         *)
(* task[i] is "new", "queued" (put, not yet got), "scheduled" (the         *)
(* run_coroutine_threadsafe callback is in the ready queue), "created"     *)
(* (the asyncio task exists, its first step is in the ready queue),        *)
(* "running" (f() has been invoked), "finished" (run_task has handed the   *)
(* outcome to call_soon_threadsafe) or "delivered" (the future is set).    *)
(***************************************************************************)
Tasks == 1..NumTasks

\* Mutant of Dequeue: the queue hands out its newest item.
Dequeue_Newest(q) == [item |-> q[Len(q)], rest |-> SubSeq(q, 1, Len(q) - 1)]

\* RateLimitQueue is a FIFO queue.Queue: get takes the oldest item (line 45)
Dequeue(q) == [item |-> Head(q), rest |-> Tail(q)]

\* RateLimitQueue(calls, per): a get may return once fewer than Calls gets
\* lie within the last Period (line 22)
RateGateOpen ==
    IF Len(call_log) < Calls THEN TRUE ELSE now >= Head(call_log) + Period

LogCall == Append(IF Len(call_log) < Calls THEN call_log ELSE Tail(call_log), now)

LimInit ==
    /\ now = 0
    /\ queue = <<>>
    /\ call_log = <<>>
    /\ ready = <<>>
    /\ task = [i \in Tasks |-> "new"]
    /\ submitted = <<>>
    /\ started = <<>>
    /\ get_time = [i \in Tasks |-> 0]
    /\ start_time = [i \in Tasks |-> 0]
    /\ fut = [i \in Tasks |-> "none"]
    /\ worker = "alive"
    /\ loop_closed = FALSE
    /\ cancelled_queued = [i \in Tasks |-> FALSE]
    /\ stop_event = FALSE
    /\ late = {}

\* execute, lines 33-36: the i-th call of execute creates its future, puts
\* its item and awaits the future
Execute(i) ==
    /\ ~loop_closed
    /\ task[i] = "new"
    /\ i = Len(submitted) + 1
    /\ queue' = Append(queue, i)
    /\ submitted' = Append(submitted, i)
    /\ task' = [task EXCEPT ![i] = "queued"]
    /\ fut' = [fut EXCEPT ![i] = "pending"]
    /\ late' = IF stop_event THEN late \cup {i} ELSE late
    /\ UNCHANGED <<now, call_log, ready, started, get_time, start_time,
                   worker, loop_closed, cancelled_queued, stop_event>>

\* The caller awaiting at line 36 is cancelled: the await cancels the
\* future; the item put at line 35 stays where it is.
CancelWait(i) ==
    /\ ~loop_closed
    /\ fut[i] = "pending"
    /\ fut' = [fut EXCEPT ![i] = "cancelled"]
    /\ cancelled_queued' = [cancelled_queued EXCEPT ![i] = (task[i] = "queued")]
    /\ UNCHANGED <<now, queue, call_log, ready, task, submitted, started,
                   get_time, start_time, worker, loop_closed, stop_event, late>>

\* lines 58-60: the handler logs and calls time.sleep; the module does not
\* import time (lines 1-5), so the call raises NameError out of the handler
HandlerSurvives == FALSE

\* _worker, lines 40-60: one turn of the loop, from get to task_done and to
\* the test of the stop event (line 40) that follows.  The worker that is
\* "alive" is inside get (line 45): it has passed the test and sees the
\* event only after it has got and handed over one more item.  On a closed
\* loop run_coroutine_threadsafe raises RuntimeError (line 56), which the
\* handler of line 58 catches.
Worker ==
    /\ worker = "alive"
    /\ queue # <<>>
    /\ RateGateOpen
    /\ LET got == Dequeue(queue) IN
       /\ queue' = got.rest
       /\ call_log' = LogCall
       /\ get_time' = [get_time EXCEPT ![got.item] = now]
       /\ IF loop_closed
          THEN /\ task' = [task EXCEPT ![got.item] = "lost"]
               /\ worker' = IF ~HandlerSurvives THEN "dead"
                            ELSE IF stop_event THEN "exited" ELSE "alive"
               /\ ready' = ready
          ELSE /\ ready' = Append(ready, [kind |-> "callback", task |-> got.item])
               /\ task' = [task EXCEPT ![got.item] = "scheduled"]
               /\ worker' = IF stop_event THEN "exited" ELSE worker
    /\ UNCHANGED <<now, submitted, started, start_time, fut, loop_closed, cancelled_queued, stop_event, late>>

\* The loop runs the callback of run_coroutine_threadsafe (line 56):
\* ensure_future creates the task, whose first step is queued by call_soon
LoopCreateTask ==
    /\ ready # <<>>
    /\ Head(ready).kind = "callback"
    /\ ready' = Append(Tail(ready), [kind |-> "step", task |-> Head(ready).task])
    /\ task' = [task EXCEPT ![Head(ready).task] = "created"]
    /\ UNCHANGED <<now, queue, call_log, submitted, started, get_time, start_time,
                   fut, worker, loop_closed, cancelled_queued, stop_event, late>>

\* The loop runs the first step of run_task: f() is invoked (line 51)
LoopStartTask ==
    /\ ready # <<>>
    /\ Head(ready).kind = "step"
    /\ ready' = Tail(ready)
    /\ task' = [task EXCEPT ![Head(ready).task] = "running"]
    /\ started' = Append(started, Head(ready).task)
    /\ start_time' = [start_time EXCEPT ![Head(ready).task] = now]
    /\ UNCHANGED <<now, queue, call_log, submitted, get_time,
                   fut, worker, loop_closed, cancelled_queued, stop_event, late>>

\* line 53: `except Exception` catches what f() raises unless it is a
\* BaseException outside Exception (asyncio.CancelledError, KeyboardInterrupt)
Caught(outcome) == outcome # "raise_base"

\* f() ends.  Its return value (line 52) or the Exception it raised (line 54)
\* is handed to call_soon_threadsafe; what line 53 does not catch ends
\* run_task with nothing handed over.
TaskFinish(i) ==
    /\ ~loop_closed
    /\ task[i] = "running"
    /\ \E outcome \in {"return", "raise", "raise_base"} :
          IF outcome = "return"
          THEN /\ ready' = Append(ready, [kind |-> "set_result", task |-> i])
               /\ task' = [task EXCEPT ![i] = "finished"]
          ELSE IF Caught(outcome)
          THEN /\ ready' = Append(ready, [kind |-> "set_exception", task |-> i])
               /\ task' = [task EXCEPT ![i] = "finished"]
          ELSE /\ ready' = ready
               /\ task' = [task EXCEPT ![i] = "died"]
    /\ UNCHANGED <<now, queue, call_log, submitted, started, get_time, start_time,
                   fut, worker, loop_closed, cancelled_queued, stop_event, late>>

\* The loop runs fut.set_result or fut.set_exception: a pending future is
\* fulfilled and execute returns or raises; on a future that is already done
\* (cancelled) the call raises InvalidStateError inside the callback, which
\* the loop logs, and the future stays as it is.
LoopDeliver ==
    /\ ready # <<>>
    /\ Head(ready).kind \in {"set_result", "set_exception"}
    /\ ready' = Tail(ready)
    /\ LET i == Head(ready).task IN
       IF fut[i] = "pending"
       THEN /\ fut' = [fut EXCEPT ![i] =
                          IF Head(ready).kind = "set_result" THEN "result" ELSE "exception"]
            /\ task' = [task EXCEPT ![i] = "delivered"]
       ELSE /\ fut' = fut
            /\ task' = [task EXCEPT ![i] = "undelivered"]
    /\ UNCHANGED <<now, queue, call_log, submitted, started, get_time, start_time,
                   worker, loop_closed, cancelled_queued, stop_event, late>>

\* The submitters' event loop is closed (loop.close()): what was in its
\* ready queue is discarded and nothing runs on it any more.
CloseLoop ==
    /\ ~loop_closed
    /\ loop_closed' = TRUE
    /\ ready' = <<>>
    /\ UNCHANGED <<now, queue, call_log, task, submitted, started, get_time, start_time,
                   fut, worker, cancelled_queued, stop_event, late>>

Tick ==
    /\ now < MaxTime
    /\ now' = now + 1
    /\ UNCHANGED <<queue, call_log, ready, task, submitted, started, get_time, start_time,
                   fut, worker, loop_closed, cancelled_queued, stop_event, late>>

InitLimiter == SessInit /\ ExtIdle /\ LimInit

\* stop, lines 62-66: the event is set and the join of at most one second
\* ends.  A worker inside get (line 45, no timeout) is not woken; only a
\* worker that has not yet made its first test of the event (the thread was
\* just started, nothing has been got) may see it at once and end.
StopLimiter ==
    /\ ~stop_event
    /\ stop_event' = TRUE
    /\ \E inside_get \in BOOLEAN :
           worker' = IF worker = "alive" /\ call_log = <<>> /\ ~inside_get
                     THEN "exited" ELSE worker
    /\ UNCHANGED <<now, queue, call_log, ready, task, submitted, started, get_time,
                   start_time, fut, loop_closed, cancelled_queued, late>>

NextLimiter ==
    \/ \E i \in Tasks : Execute(i) /\ UNCHANGED <<sessVars, extVars>>
    \/ Worker /\ UNCHANGED <<sessVars, extVars>>
    \/ LoopCreateTask /\ UNCHANGED <<sessVars, extVars>>
    \/ LoopStartTask /\ UNCHANGED <<sessVars, extVars>>
    \/ \E i \in Tasks : TaskFinish(i) /\ UNCHANGED <<sessVars, extVars>>
    \/ LoopDeliver /\ UNCHANGED <<sessVars, extVars>>
    \/ Tick /\ UNCHANGED <<sessVars, extVars>>
    \/ \E i \in Tasks : CancelWait(i) /\ UNCHANGED <<sessVars, extVars>>
    \/ CloseLoop /\ UNCHANGED <<sessVars, extVars>>

SpecLimiter == InitLimiter /\ [][NextLimiter]_vars

\* The limiter with stop: submitters, the worker, the loop starting the
\* tasks, and one call of stop at any moment.
NextStop ==
    \/ \E i \in Tasks : Execute(i) /\ UNCHANGED <<sessVars, extVars>>
    \/ Worker /\ UNCHANGED <<sessVars, extVars>>
    \/ LoopCreateTask /\ UNCHANGED <<sessVars, extVars>>
    \/ LoopStartTask /\ UNCHANGED <<sessVars, extVars>>
    \/ Tick /\ UNCHANGED <<sessVars, extVars>>
    \/ StopLimiter /\ UNCHANGED <<sessVars, extVars>>

SpecStop == InitLimiter /\ [][NextStop]_vars

(***************************************************************************)
(* Claims about the rate limiter (checked under SpecLimiter).              *)
(***************************************************************************)
\* C9: tasks begin executing in the order of their submission: the tasks
\* whose function has been invoked are, in order, the first submitted ones.
C9_StartOrderIsSubmissionOrder ==
    /\ Len(started) <= Len(submitted)
    /\ started = SubSeq(submitted, 1, Len(started))

\* C9 witness: three tasks have been submitted and started, the third two
\* periods or more after the first was got.
C9_Witness ==
    /\ Len(started) = 3
    /\ task[3] = "running"
    /\ get_time[3] >= get_time[1] + 2 * Period

\* C11: a task whose function has ended, by returning or by raising anything
\* at all, has had its outcome handed over: while its submitter still waits
\* and the loop is open, its future is fulfilled or exactly one delivery for
\* it is in the loop's ready queue; and a future is fulfilled only for a task
\* whose function has ended.
C11_OutcomeDeliveredOnce ==
    \A i \in Tasks :
        LET deliveries == {k \in 1..Len(ready) :
                             /\ ready[k].task = i
                             /\ ready[k].kind \in {"set_result", "set_exception"}}
        IN  /\ (~loop_closed /\ fut[i] # "cancelled"
                 /\ task[i] \in {"finished", "died", "delivered", "undelivered"}) =>
                    \/ fut[i] \in {"result", "exception"} /\ deliveries = {}
                    \/ fut[i] = "pending" /\ Cardinality(deliveries) = 1
            /\ fut[i] \in {"result", "exception"} => task[i] = "delivered"

\* C12: whatever has failed (a task raised, or the hand-over of a task to
\* its submitter's loop raised because the loop is closed), the worker
\* thread is alive, so what is queued is still dequeued.
C12_WorkerSurvivesFailures == worker = "alive"

\* C19: a task whose submitter cancelled its wait while the task was still
\* queued is never started: its function is not invoked.
C19_CancelledQueuedTaskNeverStarts ==
    \A i \in Tasks :
        cancelled_queued[i] => ~(\E k \in 1..Len(started) : started[k] = i)

\* C10: with one call per Period, the i-th submitted task begins executing
\* no earlier than (i-1) periods after the first began.
C10_StartsSpacedByPeriod ==
    \A i \in Tasks :
        (\E k \in 1..Len(started) : started[k] = i) =>
            start_time[i] >= start_time[started[1]] + (i - 1) * Period

\* C24: once stop has been called the worker needs no further submission
\* to end (it is not left inside get with nothing queued), and no task
\* submitted after stop returned is ever started.
C24_StopHaltsWorker ==
    /\ (stop_event /\ queue = <<>>) => worker # "alive"
    /\ \A i \in late : ~(\E k \in 1..Len(started) : started[k] = i)

====
